---- MODULE Spec2Model ----
(***************************************************************************)
(* The typed transaction envelope of ethers-core                           *)
(* (types/transaction/eip2718.rs): the enum TypedTransaction over the      *)
(* three payload types, its accessors and mutators, its RLP delegation,    *)
(* its signing hash and its serde representation.                          *)
(*                                                                         *)
(* Values.  Option<T> is a sequence of length at most one (<<>> is None,   *)
(* <<v>> is Some(v)).  Addresses, call data, amounts and fees are small    *)
(* positive numbers below 128, so that each is one RLP byte.  Bytes are    *)
(* numbers 0..255 and byte strings are sequences of them.  A JSON object   *)
(* is a function from its keys to its values.                              *)
(***************************************************************************)
EXTENDS Integers, Sequences, FiniteSets, TLC

VARIABLES
    tx,        \* the envelope value the caller holds
    op,        \* the operation that ran last
    arg,       \* its argument
    ret,       \* its return value
    pre,       \* the envelope as it was when that operation was called
    encoded,   \* the local encoded of sighash: the bytes handed to keccak256
    hist       \* per field, the value most recently given to it by the caller,
               \* and the fields given a value through a mutator

vars == <<tx, op, arg, ret, pre, encoded, hist>>

(***************************************************************************)
(* Bounds of the model.                                                    *)
(***************************************************************************)
NumAddrs == 2
NumData == 1
NumValues == 1
NumFees == 1
MaxAccessList == 1
MaxChainId == 2
NumSigs == 1

None == <<>>
Some(v) == <<v>>
Opt(S) == {None} \cup {Some(v) : v \in S}

Addresses == 1..NumAddrs
DataBlobs == 1..NumData
Values == {99 + i : i \in 1..NumValues}
Fees == {19 + i : i \in 1..NumFees}
AccessLists == {[i \in 1..k |-> 1 + (i % NumAddrs)] : k \in 0..MaxAccessList}
ChainIds == 1..MaxChainId
Signatures == {[v |-> 26 + i, r |-> 40 + i, s |-> 60 + i] : i \in 1..NumSigs}

(***************************************************************************)
(* The three payload types wrapped by the envelope.  The envelope reads    *)
(* inner.from / inner.to / inner.data of the legacy and fee-market         *)
(* requests and inner.tx.from / inner.tx.to / inner.tx.data of the         *)
(* access-list request, which nests a legacy request.                      *)
(***************************************************************************)
TransactionRequest(f, t, v, d) ==
    [from |-> f, to |-> t, value |-> v, data |-> d]

Eip2930TransactionRequest(f, t, v, d, al) ==
    [tx |-> TransactionRequest(f, t, v, d), access_list |-> al]

Eip1559TransactionRequest(f, t, v, d, fee) ==
    [from |-> f, to |-> t, value |-> v, data |-> d, max_fee_per_gas |-> fee]

(***************************************************************************)
(* enum TypedTransaction and the three From conversions.                   *)
(***************************************************************************)
Variants == {"Legacy", "Eip2930", "Eip1559"}

Legacy(inner) == [variant |-> "Legacy", inner |-> inner]
Eip2930(inner) == [variant |-> "Eip2930", inner |-> inner]
Eip1559(inner) == [variant |-> "Eip1559", inner |-> inner]

From_TransactionRequest(src) == Legacy(src)
From_Eip2930TransactionRequest(src) == Eip2930(src)
From_Eip1559TransactionRequest(src) == Eip1559(src)

(***************************************************************************)
(* Accessors and mutators.                                                 *)
(***************************************************************************)
from(self) ==
    CASE self.variant = "Legacy" -> self.inner.from
      [] self.variant = "Eip2930" -> self.inner.tx.from
      [] self.variant = "Eip1559" -> self.inner.from

to(self) ==
    CASE self.variant = "Legacy" -> self.inner.to
      [] self.variant = "Eip2930" -> self.inner.tx.to
      [] self.variant = "Eip1559" -> self.inner.to

set_to_dropping_data(self, v) ==
    CASE self.variant = "Legacy" ->
            [self EXCEPT !.inner.to = Some(v), !.inner.data = None]
      [] self.variant = "Eip2930" ->
            [self EXCEPT !.inner.tx.to = Some(v), !.inner.tx.data = None]
      [] self.variant = "Eip1559" ->
            [self EXCEPT !.inner.to = Some(v), !.inner.data = None]

set_to(self, v) ==
    CASE self.variant = "Legacy" -> [self EXCEPT !.inner.to = Some(v)]
      [] self.variant = "Eip2930" -> [self EXCEPT !.inner.tx.to = Some(v)]
      [] self.variant = "Eip1559" -> [self EXCEPT !.inner.to = Some(v)]

data(self) ==
    CASE self.variant = "Legacy" -> self.inner.data
      [] self.variant = "Eip2930" -> self.inner.tx.data
      [] self.variant = "Eip1559" -> self.inner.data

set_data_on_clone(self, v) ==
    CASE self.variant = "Legacy" -> [self EXCEPT !.inner.data = Some(v)]
      [] self.variant = "Eip2930" -> self
      [] self.variant = "Eip1559" -> [self EXCEPT !.inner.data = Some(v)]

set_data(self, v) ==
    CASE self.variant = "Legacy" -> [self EXCEPT !.inner.data = Some(v)]
      [] self.variant = "Eip2930" -> [self EXCEPT !.inner.tx.data = Some(v)]
      [] self.variant = "Eip1559" -> [self EXCEPT !.inner.data = Some(v)]

(***************************************************************************)
(* The payload encoders.  An absent field and the number zero encode as    *)
(* the empty string 0x80; a present field is its one byte; a list is the   *)
(* header 0xc0 + length followed by its items.  The legacy request signs   *)
(* (fields, chain_id, 0, 0); the typed requests put the chain id first     *)
(* and their own extra fields around the shared ones.                      *)
(***************************************************************************)
rlp_opt(o) == IF o = None THEN <<128>> ELSE <<o[1]>>

rlp_list(items) == <<192 + Len(items)>> \o items

rlp_base(p) == rlp_opt(p.to) \o rlp_opt(p.value) \o rlp_opt(p.data)

TransactionRequest_rlp(p, chain_id) ==
    rlp_list(rlp_base(p) \o <<chain_id, 128, 128>>)

TransactionRequest_rlp_signed(p, sig) ==
    rlp_list(rlp_base(p) \o <<sig.v, sig.r, sig.s>>)

Eip2930_rlp(p, chain_id) ==
    rlp_list(<<chain_id>> \o rlp_base(p.tx) \o rlp_list(p.access_list))

Eip2930_rlp_signed(p, sig) ==
    rlp_list(rlp_base(p.tx) \o rlp_list(p.access_list)
                \o <<sig.v, sig.r, sig.s>>)

Eip1559_rlp(p, chain_id) ==
    rlp_list(<<chain_id>> \o rlp_opt(p.max_fee_per_gas) \o rlp_base(p))

Eip1559_rlp_signed(p, sig) ==
    rlp_list(rlp_opt(p.max_fee_per_gas) \o rlp_base(p)
                \o <<sig.v, sig.r, sig.s>>)

(***************************************************************************)
(* keccak256: a fixed 32-byte digest of a byte string.  The digest here    *)
(* is a positional checksum spread over 32 bytes: deterministic and        *)
(* sensitive to every byte and to the order of the bytes.                  *)
(***************************************************************************)
RECURSIVE absorb(_, _)
absorb(h, bytes) ==
    IF bytes = <<>> THEN h
    ELSE absorb((h * 31 + Head(bytes) + 1) % 65521, Tail(bytes))

keccak256(bytes) ==
    LET h == absorb(7, bytes)
    IN  [i \in 1..32 |-> IF i = 1 THEN h % 256
                         ELSE IF i = 2 THEN h \div 256
                         ELSE (h + i * (1 + h \div 256)) % 256]

(***************************************************************************)
(* TypedTransaction::rlp_signed and TypedTransaction::rlp.  The Eip2930    *)
(* arm calls the encoder of inner.tx, the legacy request nested in the     *)
(* access-list request.                                                    *)
(***************************************************************************)
rlp_signed(self, signature) ==
    CASE self.variant = "Legacy" ->
            TransactionRequest_rlp_signed(self.inner, signature)
      [] self.variant = "Eip2930" ->
            TransactionRequest_rlp_signed(self.inner.tx, signature)
      [] self.variant = "Eip1559" ->
            Eip1559_rlp_signed(self.inner, signature)

rlp(self, chain_id) ==
    CASE self.variant = "Legacy" ->
            TransactionRequest_rlp(self.inner, chain_id)
      [] self.variant = "Eip2930" ->
            TransactionRequest_rlp(self.inner.tx, chain_id)
      [] self.variant = "Eip1559" ->
            Eip1559_rlp(self.inner, chain_id)

(***************************************************************************)
(* TypedTransaction::sighash.  Every arm, the Legacy one included, starts  *)
(* encoded with one byte (0, 1, 2) and extends it with tx.rlp(chain_id)  *)
(* of the payload bound by the arm: the whole payload's own encoder.       *)
(***************************************************************************)
sighash_prefix(self) ==
    CASE self.variant = "Legacy" -> <<0>>
      [] self.variant = "Eip2930" -> <<1>>
      [] self.variant = "Eip1559" -> <<2>>

sighash_payload(self, chain_id) ==
    CASE self.variant = "Legacy" ->
            TransactionRequest_rlp(self.inner, chain_id)
      [] self.variant = "Eip2930" ->
            Eip2930_rlp(self.inner, chain_id)
      [] self.variant = "Eip1559" ->
            Eip1559_rlp(self.inner, chain_id)

sighash_encoded_tag_last(self, chain_id) ==
    sighash_payload(self, chain_id) \o sighash_prefix(self)

sighash_encoded(self, chain_id) ==
    sighash_prefix(self) \o sighash_payload(self, chain_id)

sighash(self, chain_id) == keccak256(sighash_encoded(self, chain_id))

(***************************************************************************)
(* The serde representation.  Result<T, E> is a record with the flag ok.   *)
(***************************************************************************)
Ok(v) == [ok |-> TRUE, value |-> v]
Err(e) == [ok |-> FALSE, error |-> e]

EmptyObject == [k \in {} |-> k]
without(j, key) == [k \in (DOMAIN j) \ {key} |-> j[k]]

(* Payload representations: a number is rendered as a hex string, an       *)
(* absent optional field is omitted, unknown keys are ignored on decoding, *)
(* and the access-list request flattens the legacy request it nests.       *)
hex(n) == <<"0x", n>>
unhex(h) == h[2]
json_opt(key, o) == IF o = None THEN EmptyObject ELSE key :> hex(o[1])
json_get(j, key) == IF key \in DOMAIN j THEN Some(unhex(j[key])) ELSE None

TransactionRequest_serialize(p) ==
    json_opt("from", p.from) @@ json_opt("to", p.to)
        @@ json_opt("value", p.value) @@ json_opt("data", p.data)

TransactionRequest_deserialize(j) ==
    Ok(TransactionRequest(json_get(j, "from"), json_get(j, "to"),
                          json_get(j, "value"), json_get(j, "data")))

Eip2930_serialize(p) ==
    TransactionRequest_serialize(p.tx)
        @@ ("accessList" :> [i \in DOMAIN p.access_list |-> hex(p.access_list[i])])

Eip2930_deserialize(j) ==
    IF "accessList" \notin DOMAIN j THEN Err("missing field accessList")
    ELSE Ok([tx |-> TransactionRequest_deserialize(j).value,
             access_list |-> [i \in DOMAIN j["accessList"] |->
                                 unhex(j["accessList"][i])]])

Eip1559_serialize(p) ==
    json_opt("from", p.from) @@ json_opt("to", p.to)
        @@ json_opt("value", p.value) @@ json_opt("data", p.data)
        @@ json_opt("maxFeePerGas", p.max_fee_per_gas)

Eip1559_deserialize(j) ==
    Ok(Eip1559TransactionRequest(json_get(j, "from"), json_get(j, "to"),
                                 json_get(j, "value"), json_get(j, "data"),
                                 json_get(j, "maxFeePerGas")))

(* serde(tag = type) with the variants renamed 0x00, 0x01, 0x02: the       *)
(* internally tagged representation.  Serializing adds the key type to     *)
(* the object of the payload; deserializing requires the key, selects the  *)
(* variant by its value and decodes the rest as that payload.              *)
type_tag_one_digit(self) ==
    CASE self.variant = "Legacy" -> "0x0"
      [] self.variant = "Eip2930" -> "0x1"
      [] self.variant = "Eip1559" -> "0x2"

type_tag_swapped(self) ==
    CASE self.variant = "Legacy" -> "0x00"
      [] self.variant = "Eip2930" -> "0x02"
      [] self.variant = "Eip1559" -> "0x01"

type_tag(self) ==
    CASE self.variant = "Legacy" -> "0x00"
      [] self.variant = "Eip2930" -> "0x01"
      [] self.variant = "Eip1559" -> "0x02"

payload_serialize(self) ==
    CASE self.variant = "Legacy" -> TransactionRequest_serialize(self.inner)
      [] self.variant = "Eip2930" -> Eip2930_serialize(self.inner)
      [] self.variant = "Eip1559" -> Eip1559_serialize(self.inner)

serialize_externally_tagged(self) ==
    type_tag(self) :> payload_serialize(self)

serialize(self) == ("type" :> type_tag(self)) @@ payload_serialize(self)

wrap(variant, r) ==
    IF r.ok THEN Ok([variant |-> variant, inner |-> r.value]) ELSE r

deserialize_untagged_fallback(j) ==
    IF "type" \notin DOMAIN j
    THEN wrap("Legacy", TransactionRequest_deserialize(j))
    ELSE LET content == without(j, "type")
         IN  CASE j["type"] = "0x00" ->
                    wrap("Legacy", TransactionRequest_deserialize(content))
               [] j["type"] = "0x01" ->
                    wrap("Eip2930", Eip2930_deserialize(content))
               [] j["type"] = "0x02" ->
                    wrap("Eip1559", Eip1559_deserialize(content))
               [] OTHER -> Err("unknown variant")

deserialize_unknown_as_legacy(j) ==
    IF "type" \notin DOMAIN j THEN Err("missing field type")
    ELSE LET content == without(j, "type")
         IN  CASE j["type"] = "0x01" ->
                    wrap("Eip2930", Eip2930_deserialize(content))
               [] j["type"] = "0x02" ->
                    wrap("Eip1559", Eip1559_deserialize(content))
               [] OTHER ->
                    wrap("Legacy", TransactionRequest_deserialize(content))

deserialize(j) ==
    IF "type" \notin DOMAIN j THEN Err("missing field type")
    ELSE LET content == without(j, "type")
         IN  CASE j["type"] = "0x00" ->
                    wrap("Legacy", TransactionRequest_deserialize(content))
               [] j["type"] = "0x01" ->
                    wrap("Eip2930", Eip2930_deserialize(content))
               [] j["type"] = "0x02" ->
                    wrap("Eip1559", Eip1559_deserialize(content))
               [] OTHER -> Err("unknown variant")

(***************************************************************************)
(* Inputs of the decoders: the string the last to_string returned, and     *)
(* the payload object of the envelope at hand, bare or under any tag,      *)
(* recognized or not.                                                      *)
(***************************************************************************)
KnownTags == {"0x00", "0x01", "0x02"}
UnknownTags == {"0x03", "0x0", "Legacy"}

Representations(self) ==
    {payload_serialize(self)}
        \cup {("type" :> t) @@ payload_serialize(self) :
                 t \in KnownTags \cup UnknownTags}

Inputs == (IF op = "to_string" THEN {ret} ELSE {}) \cup Representations(tx)

(***************************************************************************)
(* The state machine: a caller that builds one envelope and then calls     *)
(* the operations on it in any order.                                      *)
(***************************************************************************)
Unit == <<>>

(* The state after construction: a payload built by the caller and         *)
(* converted into the envelope by the From impl of its type.               *)
Convert(name, src, e, f, t, d) ==
    /\ tx = e
    /\ op = name
    /\ arg = src
    /\ ret = e
    /\ pre = e
    /\ encoded = <<>>
    /\ hist = [from |-> f, to |-> t, data |-> d, mutated |-> {}]

FromLegacy ==
    \E f \in Opt(Addresses), t \in Opt(Addresses), v \in Opt(Values),
       d \in Opt(DataBlobs) :
        LET src == TransactionRequest(f, t, v, d)
        IN  Convert("From<TransactionRequest>", src,
                    From_TransactionRequest(src), f, t, d)

FromEip2930 ==
    \E f \in Opt(Addresses), t \in Opt(Addresses), v \in Opt(Values),
       d \in Opt(DataBlobs), al \in AccessLists :
        LET src == Eip2930TransactionRequest(f, t, v, d, al)
        IN  Convert("From<Eip2930TransactionRequest>", src,
                    From_Eip2930TransactionRequest(src), f, t, d)

FromEip1559 ==
    \E f \in Opt(Addresses), t \in Opt(Addresses), v \in Opt(Values),
       d \in Opt(DataBlobs), fee \in Opt(Fees) :
        LET src == Eip1559TransactionRequest(f, t, v, d, fee)
        IN  Convert("From<Eip1559TransactionRequest>", src,
                    From_Eip1559TransactionRequest(src), f, t, d)

Init == FromLegacy \/ FromEip2930 \/ FromEip1559

Read(name, a, r) ==
    /\ op' = name
    /\ arg' = a
    /\ ret' = r
    /\ pre' = tx
    /\ encoded' = <<>>
    /\ UNCHANGED <<tx, hist>>

GetFrom == Read("from", Unit, from(tx))
GetTo == Read("to", Unit, to(tx))
GetData == Read("data", Unit, data(tx))

SetTo ==
    \E v \in Addresses :
        /\ tx' = set_to(tx, v)
        /\ op' = "set_to"
        /\ arg' = v
        /\ ret' = Unit
        /\ pre' = tx
        /\ encoded' = <<>>
        /\ hist' = [hist EXCEPT !.to = Some(v), !.mutated = @ \cup {"to"}]

SetData ==
    \E v \in DataBlobs :
        /\ tx' = set_data(tx, v)
        /\ op' = "set_data"
        /\ arg' = v
        /\ ret' = Unit
        /\ pre' = tx
        /\ encoded' = <<>>
        /\ hist' = [hist EXCEPT !.data = Some(v), !.mutated = @ \cup {"data"}]

RlpSigned == \E sig \in Signatures : Read("rlp_signed", sig, rlp_signed(tx, sig))
Rlp == \E c \in ChainIds : Read("rlp", c, rlp(tx, c))

Sighash ==
    \E c \in ChainIds :
        /\ op' = "sighash"
        /\ arg' = c
        /\ encoded' = sighash_encoded(tx, c)
        /\ ret' = keccak256(encoded')
        /\ pre' = tx
        /\ UNCHANGED <<tx, hist>>

Serialize == Read("to_string", Unit, serialize(tx))

DeserializeEnvelope ==
    \E j \in Inputs :
        Read("from_str<TypedTransaction>", j, deserialize(j))

DeserializeInner ==
    \E j \in Inputs :
        Read("from_str<TransactionRequest>", j, TransactionRequest_deserialize(j))

Next ==
    \/ GetFrom
    \/ GetTo
    \/ GetData
    \/ SetTo
    \/ SetData
    \/ RlpSigned
    \/ Rlp
    \/ Sighash
    \/ Serialize
    \/ DeserializeEnvelope
    \/ DeserializeInner

Spec == Init /\ [][Next]_vars

(***************************************************************************)
(* What the properties below compare the operations with: the             *)
(* discriminant of each variant, its rendering as a tag, the encoder of    *)
(* the whole payload of each variant, and a payload rebuilt with one       *)
(* field replaced.                                                         *)
(***************************************************************************)
Discriminant(variant) ==
    CASE variant = "Legacy" -> 0
      [] variant = "Eip2930" -> 1
      [] variant = "Eip1559" -> 2

HexDigits == <<"0", "1", "2", "3", "4", "5", "6", "7",
               "8", "9", "a", "b", "c", "d", "e", "f">>

HexTag(n) == "0x" \o HexDigits[(n \div 16) + 1] \o HexDigits[(n % 16) + 1]

OwnRlp(e, chain_id) ==
    CASE e.variant = "Legacy" -> TransactionRequest_rlp(e.inner, chain_id)
      [] e.variant = "Eip2930" -> Eip2930_rlp(e.inner, chain_id)
      [] e.variant = "Eip1559" -> Eip1559_rlp(e.inner, chain_id)

OwnRlpSigned(e, sig) ==
    CASE e.variant = "Legacy" -> TransactionRequest_rlp_signed(e.inner, sig)
      [] e.variant = "Eip2930" -> Eip2930_rlp_signed(e.inner, sig)
      [] e.variant = "Eip1559" -> Eip1559_rlp_signed(e.inner, sig)

Rebuilt(e, t, d) ==
    LET p == e.inner
    IN  CASE e.variant = "Legacy" ->
                From_TransactionRequest(
                    TransactionRequest(p.from, t, p.value, d))
          [] e.variant = "Eip2930" ->
                From_Eip2930TransactionRequest(
                    Eip2930TransactionRequest(p.tx.from, t, p.tx.value, d,
                                              p.access_list))
          [] e.variant = "Eip1559" ->
                From_Eip1559TransactionRequest(
                    Eip1559TransactionRequest(p.from, t, p.value, d,
                                              p.max_fee_per_gas))

ReadOnlyOps == {"from", "to", "data", "rlp", "rlp_signed", "sighash"}

(***************************************************************************)
(* C1.  For a Legacy envelope and every chain id, sighash(chain_id) is     *)
(* the hash of exactly the unsigned encoding rlp(chain_id) of the legacy   *)
(* payload, with no discriminant byte before it.  The code puts the byte   *)
(* 0 before it, so this is violated.                                       *)
(***************************************************************************)
C1_LegacySighashHasNoPrefix ==
    (op = "sighash" /\ tx.variant = "Legacy") =>
        /\ encoded = TransactionRequest_rlp(tx.inner, arg)
        /\ ret = keccak256(TransactionRequest_rlp(tx.inner, arg))

(***************************************************************************)
(* C2.  For an Eip2930 or Eip1559 envelope and every chain id, the bytes   *)
(* hashed by sighash are the one discriminant byte of the variant (1, 2)   *)
(* followed by the unsigned encoding of the whole payload and nothing      *)
(* else, and the value returned is the 32-byte digest of those bytes.      *)
(***************************************************************************)
C2_TypedSighashIsTagThenPayload ==
    (op = "sighash" /\ tx.variant # "Legacy") =>
        /\ encoded = <<Discriminant(tx.variant)>> \o OwnRlp(tx, arg)
        /\ ret = keccak256(<<Discriminant(tx.variant)>> \o OwnRlp(tx, arg))
        /\ Len(ret) = 32

C2_Witness ==
    /\ op = "sighash"
    /\ tx.variant = "Eip2930"
    /\ tx.inner.access_list # <<>>
    /\ encoded[1] = 1
    /\ Len(encoded) > 1

(***************************************************************************)
(* C3.  For every variant, rlp(chain_id) and rlp_signed(signature) of the  *)
(* envelope return what the encoder of the whole active payload returns    *)
(* (for Eip2930 the encoder of the access-list request, not of the legacy  *)
(* request nested in it), so the bytes sighash hashes after its prefix     *)
(* are rlp(chain_id) of the same envelope.  The Eip2930 arms call the      *)
(* nested legacy encoder, so this is violated.                             *)
(***************************************************************************)
C3_RlpIsOwnPayloadEncoding ==
    /\ op = "rlp" => ret = OwnRlp(tx, arg)
    /\ op = "rlp_signed" => ret = OwnRlpSigned(tx, arg)
    /\ op = "sighash" => Tail(encoded) = rlp(tx, arg)

(***************************************************************************)
(* C4.  For every variant: right after set_to(v) the recipient read back   *)
(* is Some(v), right after set_data(v) the data read back is Some(v);      *)
(* after any sequence of mutator calls each getter (from, to, data)        *)
(* returns the value most recently given to its field; and a getter of a   *)
(* field that was given no value at construction and never set returns     *)
(* None.                                                                   *)
(***************************************************************************)
C4_GettersReturnLastSet ==
    /\ op = "set_to" => to(tx) = Some(arg)
    /\ op = "set_data" => data(tx) = Some(arg)
    /\ op = "from" => ret = hist.from
    /\ op = "to" => ret = hist.to
    /\ op = "data" => ret = hist.data
    /\ (op = "to" /\ hist.to = None) => (ret = None /\ "to" \notin hist.mutated)
    /\ (op = "data" /\ hist.data = None) =>
            (ret = None /\ "data" \notin hist.mutated)

C4_Witness ==
    /\ op = "data"
    /\ tx.variant = "Eip2930"
    /\ hist.mutated = {"to", "data"}
    /\ ret = Some(1)
    /\ to(tx) = Some(2)

C6_TaggedRoundTrip ==
    (op = "from_str<TypedTransaction>" /\ arg = serialize(tx)) => ret = Ok(tx)

C6_Witness ==
    /\ op = "from_str<TypedTransaction>"
    /\ tx.variant = "Eip1559"
    /\ tx.inner.max_fee_per_gas # None
    /\ tx.inner.to # None
    /\ arg = serialize(tx)
    /\ ret.ok

(***************************************************************************)
(* C7.  For every legacy payload p, the tagged serialization of Legacy(p)  *)
(* also decodes as the bare legacy payload type: the decode succeeds,      *)
(* ignores the tag and returns d with Legacy(d) equal to the envelope.     *)
(***************************************************************************)
C7_TaggedLegacyDecodesAsInner ==
    (/\ op = "from_str<TransactionRequest>"
     /\ tx.variant = "Legacy"
     /\ arg = serialize(tx)) =>
        (ret.ok /\ Legacy(ret.value) = tx)

C7_Witness ==
    /\ op = "from_str<TransactionRequest>"
    /\ tx.variant = "Legacy"
    /\ "type" \in DOMAIN arg
    /\ arg = serialize(tx)
    /\ tx.inner.to = Some(1)
    /\ tx.inner.value = Some(100)
    /\ ret.ok

(***************************************************************************)
(* C8.  Decoding an envelope from a representation whose type tag is not   *)
(* one of 0x00, 0x01, 0x02 fails with a decode error, for every such tag   *)
(* and every field content; it never yields a value of a variant.          *)
(***************************************************************************)
C8_UnknownTagIsRejected ==
    (/\ op = "from_str<TypedTransaction>"
     /\ "type" \in DOMAIN arg
     /\ arg["type"] \notin {"0x00", "0x01", "0x02"}) => ~ret.ok

C8_Witness ==
    /\ op = "from_str<TypedTransaction>"
    /\ "type" \in DOMAIN arg
    /\ arg["type"] = "0x03"
    /\ "accessList" \in DOMAIN arg
    /\ ~ret.ok

(***************************************************************************)
(* C9.  Each variant has one fixed discriminant, distinct from the others  *)
(* (Legacy 0, Eip2930 1, Eip1559 2): an envelope serializes with the tag   *)
(* of its variant rendered as 0x and two hex digits, whatever its fields   *)
(* and whatever mutators were applied, and that discriminant is the byte   *)
(* that stands for the variant in the bytes sighash hashes.                *)
(***************************************************************************)
C9_FixedDiscriminant ==
    /\ op = "to_string" =>
            /\ "type" \in DOMAIN ret
            /\ ret["type"] = HexTag(Discriminant(tx.variant))
    /\ op = "sighash" => encoded[1] = Discriminant(tx.variant)

C9_Witness ==
    /\ op = "to_string"
    /\ tx.variant = "Eip1559"
    /\ hist.mutated = {"to", "data"}
    /\ ret["type"] = "0x02"

(***************************************************************************)
(* C10.  set_to(v) (set_data(v)) on an envelope gives the envelope built   *)
(* from the same payload with only its recipient (data) replaced by v:     *)
(* the variant and every other field are unchanged; From gives the one     *)
(* variant fixed for the payload type, holding the payload unchanged; and  *)
(* from, to, data, rlp, rlp_signed and sighash leave the envelope          *)
(* unchanged.                                                              *)
(***************************************************************************)
C10_MutatorsChangeOneField ==
    /\ op = "set_to" => tx = Rebuilt(pre, Some(arg), data(pre))
    /\ op = "set_data" => tx = Rebuilt(pre, to(pre), Some(arg))
    /\ op \in {"set_to", "set_data"} =>
            (tx.variant = pre.variant /\ from(tx) = from(pre))
    /\ op = "From<TransactionRequest>" =>
            tx = [variant |-> "Legacy", inner |-> arg]
    /\ op = "From<Eip2930TransactionRequest>" =>
            tx = [variant |-> "Eip2930", inner |-> arg]
    /\ op = "From<Eip1559TransactionRequest>" =>
            tx = [variant |-> "Eip1559", inner |-> arg]
    /\ op \in ReadOnlyOps => tx = pre

C10_Witness ==
    /\ op = "set_to"
    /\ pre.variant = "Eip2930"
    /\ pre.inner.access_list # <<>>
    /\ data(pre) # None
    /\ to(pre) # Some(arg)
    /\ to(tx) = Some(arg)

====
